---- MODULE Spec2Model ----
(***************************************************************************)
(* Model of src/src/hash_table.rs: HashTable<K, V> over Buckets<K, V>,     *)
(* a Vec<Vec<(K, V)>> addressed by hash(key) % number_of_slots; and of the *)
(* slice algorithms binary_search, selection_sort and quick_sort, each run *)
(* step by step on an input drawn at Init.                                 *)
(*                                                                         *)
(* Conventions                                                             *)
(*   - Option<T>: None is <<>>, Some(x) is <<x>>.                          *)
(*   - Slot indices are 0-based as in the source; the TLA+ sequence        *)
(*     `buckets` is 1-based, so slot i is buckets[i + 1].  Positions in a  *)
(*     slot are 1-based.                                                   *)
(*   - K is generic with a caller-supplied deterministic Hash, so the hash *)
(*     is an arbitrary function Keys -> 0..HashBound-1 chosen at Init and  *)
(*     never changed.  The code only compares keys for equality, so keys   *)
(*     are interchangeable; Init keeps one hash function per renaming of   *)
(*     the keys (the non-decreasing one).                                  *)
(*   - V is unconstrained (no trait bound): the code moves values and      *)
(*     never inspects them, so two distinct values tell every mix-up of    *)
(*     old and new apart.                                                  *)
(*   - ret is the last call that takes &mut self (insert, remove, resize)   *)
(*     and what it returned, <<name, result>>; a call that panicked        *)
(*     returned nothing, <<name>>.  What the calls on &self return is a    *)
(*     function of the state: HashTableGet, HashTableContainsKey,          *)
(*     HashTableLen.                                                       *)
(*   - capacity is self.0.capacity(): 0 for Vec::new(), and the requested   *)
(*     number for Vec::with_capacity(cap) (the element type Vec<(K, V)> is  *)
(*     not zero-sized, so the allocation is exact).                        *)
(*   - A panic ends the run: status leaves "ok" and no operation is        *)
(*     enabled afterwards.  buckets/capacity then hold what memory held    *)
(*     at the panic.                                                       *)
(***************************************************************************)
EXTENDS Integers, Sequences, FiniteSets, TLC

\* ---------------------------------------------------------------- bounds
NumKeys == 3
HashBound == 3
MaxCap == 4

\* slices handed to binary_search have at most BsMaxLen elements, slices
\* handed to the sorts at most SortMaxLen, with elements 0 .. MaxElem
BsMaxLen == 6
SortMaxLen == 6
MaxElem == 2

\* usize is modelled UsizeBits wide (any width whose usize::MAX exceeds every
\* index the runs reach behaves alike)
UsizeBits == 16

\* a run is followed for at most MaxIters loop iterations
MaxIters == 10

Keys == 0 .. (NumKeys - 1)
Vals == {"a", "b"}
HashValues == 0 .. (HashBound - 1)

\* ------------------------------------------------------ program constant
INITIAL_LEN == 2


\* the hash table
VARIABLES hash, buckets, capacity, status, ret

\* the slice algorithms: the slice src (input is what it held at the call),
\* the element searched, the locals of the running function, the calls of
\* quick_sort still to run, the value returned, the position in the code and
\* the number of steps taken
VARIABLES src, input, element, locals, calls, result, pc, iters

htVars == <<hash, buckets, capacity, status, ret>>

algVars == <<src, input, element, locals, calls, result, pc, iters>>

vars == <<hash, buckets, capacity, status, ret,
          src, input, element, locals, calls, result, pc, iters>>

None == <<>>
Some(x) == <<x>>

\* ------------------------------------------------------------ Buckets<K,V>

\* Vec::new(): no slots
BucketsNew == <<>>

\* an index that ignores the hash: every key goes to the first slot
get_index_zero(h, b, key) == 0

\* hash % self.0.len(); the caller must have checked Len(b) > 0, because the
\* remainder by zero panics
get_index(h, b, key) == h[key] % Len(b)

\* a closure that compares with < where the code compares with ==
KeyMatches_smaller(entry, key) == entry[1] < key

\* the closure |(k, _)| k == key of position / find
KeyMatches(entry, key) == entry[1] = key

\* a get_pos_in_bucket that takes the first entry of the slot for a match
\* (hash equality standing in for key equality)
get_pos_in_bucket_first(b, bucket, key) ==
    IF bucket + 1 > Len(b)
    THEN None
    ELSE IF b[bucket + 1] = <<>> THEN None ELSE Some(1)

\* self.0.get(bucket).map(|b| b.iter().position(|(k, _)| k == key)).flatten()
get_pos_in_bucket(b, bucket, key) ==
    IF bucket + 1 > Len(b)
    THEN None
    ELSE LET s == b[bucket + 1]
             hits == {p \in 1 .. Len(s) : KeyMatches(s[p], key)}
         IN IF hits = {}
            THEN None
            ELSE Some(CHOOSE p \in hits : \A q \in hits : p <= q)

\* a removal that cuts the slot at pos and drops what follows
swap_remove_truncate(s, pos) == SubSeq(s, 1, pos - 1)

\* Vec::swap_remove(pos): the last element takes the place of the removed one
swap_remove(s, pos) ==
    IF pos = Len(s)
    THEN SubSeq(s, 1, Len(s) - 1)
    ELSE [SubSeq(s, 1, Len(s) - 1) EXCEPT ![pos] = s[Len(s)]]

\* Buckets::get
BucketsGet(h, b, key) ==
    IF Len(b) = 0
    THEN [status |-> "rem_by_zero", ret |-> None]
    ELSE LET pos == get_pos_in_bucket(b, get_index(h, b, key), key)
         IN IF pos = None
            THEN [status |-> "ok", ret |-> None]
            ELSE [status |-> "ok",
                  ret |-> Some(b[get_index(h, b, key) + 1][pos[1]][2])]

\* a remove that takes out the last entry of the slot instead of the one found
BucketsRemove_last(h, b, key) ==
    IF Len(b) = 0
    THEN [b |-> b, status |-> "rem_by_zero", ret |-> None]
    ELSE LET i == get_index(h, b, key)
             pos == get_pos_in_bucket(b, i, key)
         IN IF pos # None
            THEN [b |-> [b EXCEPT ![i + 1] =
                            swap_remove(b[i + 1], Len(b[i + 1]))],
                  status |-> "ok",
                  ret |-> Some(b[i + 1][pos[1]][2])]
            ELSE [b |-> b, status |-> "ok", ret |-> None]

\* a remove that also gives back the last slot once it is empty
BucketsRemove_shrink(h, b, key) ==
    IF Len(b) = 0
    THEN [b |-> b, status |-> "rem_by_zero", ret |-> None]
    ELSE LET i == get_index(h, b, key)
             pos == get_pos_in_bucket(b, i, key)
             nb == IF pos = None
                   THEN b
                   ELSE [b EXCEPT ![i + 1] = swap_remove(b[i + 1], pos[1])]
         IN IF pos # None
            THEN [b |-> IF nb[Len(nb)] = <<>>
                        THEN SubSeq(nb, 1, Len(nb) - 1)
                        ELSE nb,
                  status |-> "ok",
                  ret |-> Some(b[i + 1][pos[1]][2])]
            ELSE [b |-> b, status |-> "ok", ret |-> None]

\* Buckets::remove
BucketsRemove(h, b, key) ==
    IF Len(b) = 0
    THEN [b |-> b, status |-> "rem_by_zero", ret |-> None]
    ELSE LET i == get_index(h, b, key)
             pos == get_pos_in_bucket(b, i, key)
         IN IF pos # None
            THEN [b |-> [b EXCEPT ![i + 1] = swap_remove(b[i + 1], pos[1])],
                  status |-> "ok",
                  ret |-> Some(b[i + 1][pos[1]][2])]
            ELSE [b |-> b, status |-> "ok", ret |-> None]

\* an insert that returns the old value of a present key but appends the new
\* entry instead of replacing the old one
BucketsInsert_push(h, b, key, value) ==
    IF Len(b) = 0
    THEN [b |-> b, status |-> "rem_by_zero", ret |-> None]
    ELSE LET i == get_index(h, b, key)
             pos == get_pos_in_bucket(b, i, key)
         IN [b |-> [b EXCEPT ![i + 1] = Append(b[i + 1], <<key, value>>)],
             status |-> "ok",
             ret |-> IF pos # None THEN Some(b[i + 1][pos[1]][2]) ELSE None]

\* Buckets::insert
BucketsInsert(h, b, key, value) ==
    IF Len(b) = 0
    THEN [b |-> b, status |-> "rem_by_zero", ret |-> None]
    ELSE LET i == get_index(h, b, key)
             pos == get_pos_in_bucket(b, i, key)
         IN IF pos # None
            THEN [b |-> [b EXCEPT ![i + 1][pos[1]] = <<key, value>>],
                  status |-> "ok",
                  ret |-> Some(b[i + 1][pos[1]][2])]
            ELSE [b |-> [b EXCEPT ![i + 1] = Append(b[i + 1], <<key, value>>)],
                  status |-> "ok",
                  ret |-> None]

\* Buckets::len: the number of non-empty slots
BucketsLen(b) == Cardinality({i \in 1 .. Len(b) : b[i] # <<>>})

RECURSIVE SumLens(_, _)
SumLens(b, i) == IF i > Len(b) THEN 0 ELSE Len(b[i]) + SumLens(b, i + 1)

\* Buckets::count_items: the number of entries
count_items(b) == SumLens(b, 1)

\* Buckets::update_old_values, from old slot number i (1-based) on: every old
\* slot is moved as a whole to the new index of its first key
RECURSIVE update_old_values(_, _, _, _)
update_old_values(h, nb, old, i) ==
    IF i > Len(old)
    THEN [b |-> nb, status |-> "ok"]
    ELSE IF old[i] = <<>>
         THEN [b |-> nb, status |-> "expect_empty"]
         ELSE update_old_values(
                  h,
                  [nb EXCEPT ![get_index(h, nb, old[i][1][1]) + 1] = old[i]],
                  old,
                  i + 1)

\* a resize that allocates one slot more than the capacity asked for
BucketsResize_extra(h, b, cap) ==
    update_old_values(h, [i \in 1 .. (cap + 1) |-> <<>>], b, 1)

\* Buckets::resize
BucketsResize(h, b, cap) ==
    update_old_values(h, [i \in 1 .. cap |-> <<>>], b, 1)

\* ---------------------------------------------------------- HashTable<K,V>

\* HashTable::needs_resize
needs_resize(b, cap) ==
    IF BucketsLen(b) = 0
    THEN TRUE
    ELSE (BucketsLen(b) \div cap) > 7

\* a growth by one slot instead of doubling
resize_cap_plus_one(cap) == IF cap = 0 THEN INITIAL_LEN ELSE cap + 1

\* the new capacity chosen by HashTable::resize
resize_cap(cap) == IF cap = 0 THEN INITIAL_LEN ELSE cap * 2

\* HashTable::resize
HashTableResize(h, b, cap) ==
    LET r == BucketsResize(h, b, resize_cap(cap))
    IN [b |-> r.b, cap |-> resize_cap(cap), status |-> r.status]

\* HashTable::insert
HashTableInsert(h, b, cap, key, value) ==
    LET rs == IF needs_resize(b, cap)
              THEN HashTableResize(h, b, cap)
              ELSE [b |-> b, cap |-> cap, status |-> "ok"]
    IN IF rs.status # "ok"
       THEN [b |-> rs.b, cap |-> rs.cap, status |-> rs.status, ret |-> None]
       ELSE LET ins == BucketsInsert(h, rs.b, key, value)
            IN [b |-> ins.b, cap |-> rs.cap, status |-> ins.status,
                ret |-> ins.ret]

\* HashTable::get
HashTableGet(h, b, key) == BucketsGet(h, b, key)

\* HashTable::contains_key: self.get(key).is_some()
HashTableContainsKey(h, b, key) ==
    LET r == HashTableGet(h, b, key)
    IN [status |-> r.status, ret |-> (r.ret # None)]

\* a remove that empties the whole slot of the key
HashTableRemove_clear(h, b, key) ==
    LET r == BucketsRemove(h, b, key)
    IN IF r.ret = None
       THEN r
       ELSE [r EXCEPT !.b = [b EXCEPT ![get_index(h, b, key) + 1] = <<>>]]

\* HashTable::remove
HashTableRemove(h, b, key) == BucketsRemove(h, b, key)

\* HashTable::len
HashTableLen(b) == count_items(b)

\* ------------------------------------------------------------------ state

\* one hash function per renaming of the keys
HashFunctions ==
    {f \in [Keys -> HashValues] :
        \A k \in Keys : (k + 1) \in Keys => f[k] <= f[k + 1]}

TypeOK ==
    /\ hash \in HashFunctions
    /\ capacity \in Nat
    /\ status \in {"ok", "rem_by_zero", "expect_empty"}

\* no slice algorithm is running
AlgIdle ==
    /\ src = <<>>
    /\ input = <<>>
    /\ element = 0
    /\ locals = <<>>
    /\ calls = <<>>
    /\ result = <<>>
    /\ pc = "idle"
    /\ iters = 0

\* HashTable::new()
Init ==
    /\ hash \in HashFunctions
    /\ buckets = BucketsNew
    /\ capacity = 0
    /\ status = "ok"
    /\ ret = <<"new">>
    /\ AlgIdle

Insert(key, value) ==
    /\ status = "ok"
    /\ LET r == HashTableInsert(hash, buckets, capacity, key, value)
       IN /\ buckets' = r.b
          /\ capacity' = r.cap
          /\ status' = r.status
          /\ ret' = IF r.status = "ok" THEN <<"insert", r.ret>> ELSE <<"insert">>
    /\ UNCHANGED hash
    /\ UNCHANGED algVars

Get(key) ==
    /\ status = "ok"
    /\ status' = HashTableGet(hash, buckets, key).status
    /\ UNCHANGED <<hash, buckets, capacity, ret>>
    /\ UNCHANGED algVars

ContainsKey(key) ==
    /\ status = "ok"
    /\ status' = HashTableContainsKey(hash, buckets, key).status
    /\ UNCHANGED <<hash, buckets, capacity, ret>>
    /\ UNCHANGED algVars

Remove(key) ==
    /\ status = "ok"
    /\ LET r == HashTableRemove(hash, buckets, key)
       IN /\ buckets' = r.b
          /\ status' = r.status
          /\ ret' = IF r.status = "ok" THEN <<"remove", r.ret>> ELSE <<"remove">>
    /\ UNCHANGED <<hash, capacity>>
    /\ UNCHANGED algVars

\* len() reads the table and returns HashTableLen(buckets)
LenOp ==
    /\ status = "ok"
    /\ HashTableLen(buckets) \in Nat
    /\ UNCHANGED <<hash, buckets, capacity, status, ret>>
    /\ UNCHANGED algVars

\* HashTable::resize called on its own (the private method, whatever
\* needs_resize says), up to MaxCap slots
ResizeCall ==
    /\ status = "ok"
    /\ resize_cap(capacity) <= MaxCap
    /\ LET r == HashTableResize(hash, buckets, capacity)
       IN /\ buckets' = r.b
          /\ capacity' = r.cap
          /\ status' = r.status
    /\ ret' = <<"resize">>
    /\ UNCHANGED hash
    /\ UNCHANGED algVars

InsertAny == \E key \in Keys, value \in Vals : Insert(key, value)
GetAny == \E key \in Keys : Get(key)
ContainsKeyAny == \E key \in Keys : ContainsKey(key)
RemoveAny == \E key \in Keys : Remove(key)

Next ==
    \/ InsertAny
    \/ GetAny
    \/ ContainsKeyAny
    \/ RemoveAny
    \/ LenOp

\* every sequence of public operations on HashTable::new()
Spec == Init /\ [][Next]_vars

NextResize ==
    \/ Next
    \/ ResizeCall

\* the public operations, and HashTable::resize applied to any table they
\* build
SpecResize == Init /\ [][NextResize]_vars

\* inserts only, every key inserted again and again (the caller keeps filling
\* the table)
SpecFill ==
    /\ Init
    /\ [][InsertAny]_vars
    /\ \A key \in Keys : WF_vars(\E value \in Vals : Insert(key, value))

\* ------------------------------------------------------ slice algorithms

\* the u32 / i32 elements of the slices
Elems == 0 .. MaxElem

\* usize::MAX at the model's width
UsizeMax == 2 ^ UsizeBits - 1

IsSorted(s) == \A p \in 1 .. Len(s) - 1 : s[p] <= s[p + 1]

\* the slices of at most n elements
Slices(n) == UNION {[1 .. m -> Elems] : m \in 0 .. n}

\* the table is not used while a slice algorithm runs
HtIdle ==
    /\ hash = [key \in Keys |-> 0]
    /\ buckets = BucketsNew
    /\ capacity = 0
    /\ status = "ok"
    /\ ret = <<"new">>

\* a call of a slice function on src that has not started yet
AlgCall(s) ==
    /\ src = s
    /\ input = s
    /\ locals = <<>>
    /\ calls = <<>>
    /\ result = <<>>
    /\ pc = "call"
    /\ iters = 0

\* ---------------------------------------------------------- binary_search

\* binary_search(src, element) is called on a sorted slice ("Important: src
\* should be sorted")
InitBs ==
    /\ HtIdle
    /\ \E s \in {t \in Slices(BsMaxLen) : IsSorted(t)} : AlgCall(s)
    /\ element \in Elems

\* (low + high / 2) as usize
BsMid(low, high) == low + (high \div 2)

\* the function up to the loop: None for an empty slice, else low and high
BsEnter ==
    /\ pc = "call"
    /\ IF Len(src) = 0
       THEN /\ result' = None
            /\ pc' = "done"
            /\ UNCHANGED locals
       ELSE /\ locals' = [low |-> 0, high |-> Len(src) - 1]
            /\ pc' = "loop"
            /\ UNCHANGED result
    /\ UNCHANGED <<src, input, element, calls, iters>>
    /\ UNCHANGED htVars

\* one test of low != high and, if it passes, one run of the loop body.
\* src[mid] panics when mid is outside the slice; mid - 1 with mid = 0
\* panics where overflow is checked and wraps to usize::MAX where it is not.
BsLoop ==
    /\ pc = "loop"
    /\ iters < MaxIters
    /\ iters' = iters + 1
    /\ IF locals.low = locals.high
       THEN /\ result' = None
            /\ pc' = "done"
            /\ UNCHANGED locals
       ELSE LET mid == BsMid(locals.low, locals.high)
            IN IF mid >= Len(src)
               THEN /\ pc' = "panic_index"
                    /\ UNCHANGED <<locals, result>>
               ELSE LET guess == src[mid + 1]
                    IN IF guess > element
                       THEN IF mid = 0
                            THEN \/ /\ pc' = "panic_overflow"
                                    /\ UNCHANGED <<locals, result>>
                                 \/ /\ locals' = [locals EXCEPT !.high = UsizeMax]
                                    /\ UNCHANGED <<pc, result>>
                            ELSE /\ locals' = [locals EXCEPT !.high = mid - 1]
                                 /\ UNCHANGED <<pc, result>>
                       ELSE IF guess < element
                            THEN /\ locals' = [locals EXCEPT !.low = mid + 1]
                                 /\ UNCHANGED <<pc, result>>
                            ELSE /\ result' = Some(mid)
                                 /\ pc' = "done"
                                 /\ UNCHANGED locals
    /\ UNCHANGED <<src, input, element, calls>>
    /\ UNCHANGED htVars

NextBs ==
    \/ BsEnter
    \/ BsLoop

\* one call of binary_search on every sorted slice and every element
SpecBs == InitBs /\ [][NextBs]_vars

\* --------------------------------------------------------- selection_sort

\* slice.swap(a, b), a and b counted from 0
Swap(s, a, b) == [s EXCEPT ![a + 1] = s[b + 1], ![b + 1] = s[a + 1]]

\* get_smallest(s).0 for a non-empty s: the minimum of the pairs
\* (value, index), so the first position of the smallest value, from 0
get_smallest(s) ==
    CHOOSE p \in 0 .. Len(s) - 1 :
        \A q \in 0 .. Len(s) - 1 :
            \/ s[p + 1] < s[q + 1]
            \/ (s[p + 1] = s[q + 1] /\ p <= q)

\* selection_sort(src) is called on any slice
InitSel ==
    /\ HtIdle
    /\ \E s \in Slices(SortMaxLen) : AlgCall(s)
    /\ element = 0

\* the range 0..src.len() - 1 is built: on an empty slice the subtraction
\* panics where overflow is checked and wraps to usize::MAX where it is not
SelEnter ==
    /\ pc = "call"
    /\ IF Len(src) = 0
       THEN \/ /\ pc' = "panic_overflow"
               /\ UNCHANGED locals
            \/ /\ locals' = [i |-> 0, end |-> UsizeMax]
               /\ pc' = "loop"
       ELSE /\ locals' = [i |-> 0, end |-> Len(src) - 1]
            /\ pc' = "loop"
    /\ UNCHANGED <<src, input, element, calls, result, iters>>
    /\ UNCHANGED htVars

\* one step of the for loop: the end of the range, or one run of the body.
\* get_smallest panics in expect("iterator is not empty") on an empty
\* slice; the assert_eq of the body holds by the definition of src[i..]
SelLoop ==
    /\ pc = "loop"
    /\ IF locals.i >= locals.end
       THEN /\ pc' = "done"
            /\ UNCHANGED <<src, locals>>
       ELSE IF locals.i > Len(src)
            THEN /\ pc' = "panic_index"
                 /\ UNCHANGED <<src, locals>>
            ELSE LET rest == SubSeq(src, locals.i + 1, Len(src))
                 IN IF rest = <<>>
                    THEN /\ pc' = "panic_expect"
                         /\ UNCHANGED <<src, locals>>
                    ELSE /\ src' = Swap(src, locals.i,
                                         locals.i + get_smallest(rest))
                         /\ locals' = [locals EXCEPT !.i = locals.i + 1]
                         /\ UNCHANGED pc
    /\ UNCHANGED <<input, element, calls, result, iters>>
    /\ UNCHANGED htVars

NextSel ==
    \/ SelEnter
    \/ SelLoop

\* one call of selection_sort on every slice
SpecSel == InitSel /\ [][NextSel]_vars

\* ------------------------------------------------------------- quick_sort

\* A call of quick_sort on the subslice src[base .. base + n] is the pair
\* <<base, n>>. calls holds the calls still to run, the next one first: the
\* two recursive calls of quick_sort_impl run one after the other on disjoint
\* subslices, so the pending calls form a stack.

\* quick_sort(src) is called on any slice
InitQs ==
    /\ HtIdle
    /\ \E s \in Slices(SortMaxLen) : AlgCall(s)
    /\ element = 0

\* the caller's call of quick_sort on the whole slice
QsEnter ==
    /\ pc = "call"
    /\ calls' = <<<<0, Len(src)>>>>
    /\ pc' = "dispatch"
    /\ UNCHANGED <<src, input, element, locals, result, iters>>
    /\ UNCHANGED htVars

\* quick_sort on the next subslice: lengths 0 and 1 return, length 2 swaps
\* its elements if they are out of order, longer slices enter
\* quick_sort_impl, which sets pivot_index, i and j
QsCall ==
    /\ pc = "dispatch"
    /\ calls # <<>>
    /\ calls' = Tail(calls)
    /\ LET base == Head(calls)[1]
           n == Head(calls)[2]
       IN IF n <= 1
          THEN UNCHANGED <<src, locals, pc, iters>>
          ELSE IF n = 2
               THEN /\ src' = IF src[base + 1] > src[base + 2]
                                THEN Swap(src, base, base + 1)
                                ELSE src
                    /\ UNCHANGED <<locals, pc, iters>>
               ELSE /\ locals' = [base |-> base, n |-> n,
                                   pivot_index |-> n \div 2,
                                   i |-> 0, j |-> n - 1]
                    /\ pc' = "loop"
                    /\ iters' = 0
                    /\ UNCHANGED src
    /\ UNCHANGED <<input, element, result>>
    /\ UNCHANGED htVars

\* the outermost quick_sort returns to the caller
QsReturn ==
    /\ pc = "dispatch"
    /\ calls = <<>>
    /\ pc' = "done"
    /\ UNCHANGED <<src, input, element, locals, calls, result, iters>>
    /\ UNCHANGED htVars

\* one test of i <= j and, if it passes, one run of the body of the
\* partition loop; every src[..] is checked against the length n of the
\* subslice, as indexing a slice is
QsLoop ==
    /\ pc = "loop"
    /\ iters < MaxIters
    /\ iters' = iters + 1
    /\ LET base == locals.base
           n == locals.n
           i == locals.i
           j == locals.j
       IN IF ~(i <= j)
          THEN /\ pc' = "split"
               /\ UNCHANGED <<src, locals>>
          ELSE IF locals.pivot_index >= n \/ i >= n
               THEN /\ pc' = "panic_index"
                    /\ UNCHANGED <<src, locals>>
               ELSE LET pivot == src[base + locals.pivot_index + 1]
                    IN IF src[base + i + 1] <= pivot
                       THEN /\ locals' = [locals EXCEPT !.i = i + 1]
                            /\ UNCHANGED <<src, pc>>
                       ELSE IF j >= n
                            THEN /\ pc' = "panic_index"
                                 /\ UNCHANGED <<src, locals>>
                            ELSE IF src[base + j + 1] >= pivot
                                 THEN IF j = 0
                                      THEN /\ pc' = "split"
                                           /\ UNCHANGED <<src, locals>>
                                      ELSE /\ locals' =
                                                [locals EXCEPT !.j = j - 1]
                                           /\ UNCHANGED <<src, pc>>
                                 ELSE /\ src' = Swap(src, base + i, base + j)
                                      /\ IF j = 0
                                         THEN /\ locals' =
                                                   [locals EXCEPT !.i = i + 1]
                                              /\ pc' = "split"
                                         ELSE /\ locals' =
                                                   [locals EXCEPT !.i = i + 1,
                                                                  !.j = j - 1]
                                              /\ UNCHANGED pc
    /\ UNCHANGED <<input, element, calls, result>>
    /\ UNCHANGED htVars

\* a pivot position that is i in both cases
QsPivotPos_i(i, pivot_index) == i

\* let b = if i > pivot_index { i - 1 } else { i }
QsPivotPos(i, pivot_index) == IF i > pivot_index THEN i - 1 ELSE i

\* after the loop: the pivot is swapped to b, then quick_sort is called on
\* src[..b] and after it on src[b + 1..]
QsSplit ==
    /\ pc = "split"
    /\ LET base == locals.base
           n == locals.n
           b == QsPivotPos(locals.i, locals.pivot_index)
       IN IF locals.pivot_index >= n \/ b >= n
          THEN /\ pc' = "panic_index"
               /\ UNCHANGED <<src, calls>>
          ELSE /\ src' = Swap(src, base + locals.pivot_index, base + b)
               /\ calls' = <<<<base, b>>, <<base + b + 1, n - (b + 1)>>>>
                                \o calls
               /\ pc' = "dispatch"
    /\ UNCHANGED <<input, element, locals, result, iters>>
    /\ UNCHANGED htVars

NextQs ==
    \/ QsEnter
    \/ QsCall
    \/ QsReturn
    \/ QsLoop
    \/ QsSplit

\* one call of quick_sort on every slice
SpecQs == InitQs /\ [][NextQs]_vars

\* ------------------------------------------------------------- observers

\* what get(key) returns in the current state
Lookup(key) == HashTableGet(hash, buckets, key).ret

\* what get(key) returns in the next state
LookupNext(key) == HashTableGet(hash', buckets', key).ret

\* contains_key(key), false on a table without slots
Present(key) == Len(buckets) > 0 /\ Lookup(key) # None

PresentKeys == {key \in Keys : Present(key)}

\* the positions <<slot, position>> of b that hold an entry of key
EntriesOf(b, key) ==
    {ip \in (1 .. Len(b)) \X (1 .. NumKeys * 2) :
        ip[2] <= Len(b[ip[1]]) /\ b[ip[1]][ip[2]][1] = key}

\* the slots of b that hold an entry of key
SlotsOf(b, key) == {ip[1] : ip \in EntriesOf(b, key)}

\* how often e occurs in s
Count(s, e) == Cardinality({p \in 1 .. Len(s) : s[p] = e})

\* s holds the elements of t, each as often as t does
IsPermutation(s, t) ==
    /\ Len(s) = Len(t)
    /\ \A e \in Elems : Count(s, e) = Count(t, e)

\* a slice function has panicked
Panicked ==
    pc \in {"panic_index", "panic_overflow", "panic_expect"}

\* ----------------------------------------------------------------- claims

\* C1: after insert(k, v) returns, get(k) returns v; and while k is present,
\* every operation other than insert(k, _) and remove(k) completes and leaves
\* the result of get(k) as it was.
C1_InsertThenGet ==
    [][\A k \in Keys :
          /\ \A v \in Vals :
                (status' = "ok" /\ ret'[1] = "insert" /\ Insert(k, v))
                    => HashTableGet(hash', buckets', k)
                         = [status |-> "ok", ret |-> Some(v)]
          /\ \/ (status' = "ok" /\ buckets' = buckets)
             \/ ~Present(k)
             \/ (status' = "ok" /\ LookupNext(k) = Lookup(k))
             \/ Remove(k)
             \/ \E v \in Vals : Insert(k, v)
      ]_vars

\* C1 witness: a key was removed from a table in which a slot still holds two
\* or more entries, and get finds every one of them with its value
C1_Witness ==
    /\ status = "ok"
    /\ ret[1] = "remove"
    /\ ret[2] # None
    /\ \E i \in 1 .. Len(buckets) :
          /\ Len(buckets[i]) >= 2
          /\ \A p \in 1 .. Len(buckets[i]) :
                Lookup(buckets[i][p][1]) = Some(buckets[i][p][2])

\* C2: insert(k, v_new) on a present key completes, returns Some(v_old), leaves
\* exactly one entry for k, the one get(k) returns with v_new, and leaves len()
\* unchanged; insert on an absent key, when it returns, returns None.
C2_InsertExisting ==
    [][\A k \in Keys, v \in Vals :
          (ret'[1] = "insert" /\ Insert(k, v)) =>
              IF Present(k)
              THEN /\ status' = "ok"
                   /\ ret' = <<"insert", Lookup(k)>>
                   /\ LookupNext(k) = Some(v)
                   /\ Cardinality(EntriesOf(buckets', k)) = 1
                   /\ HashTableLen(buckets') = HashTableLen(buckets)
              ELSE (status' = "ok" => ret' = <<"insert", None>>)
      ]_vars

\* C2 witness: the only entry of the table was overwritten, "a" by "b"
C2_Witness ==
    /\ status = "ok"
    /\ ret = <<"insert", Some("a")>>
    /\ HashTableLen(buckets) = 1
    /\ \E k \in Keys : Lookup(k) = Some("b")

\* C3: len() is the number of distinct keys stored (the keys contains_key
\* reports); an insert of an absent key raises it by one and a remove of a
\* present key lowers it by one.
C3_LenCountsKeys ==
    /\ [](status = "ok" => HashTableLen(buckets) = Cardinality(PresentKeys))
    /\ [][
          /\ \A k \in Keys, v \in Vals :
                (status' = "ok" /\ ret'[1] = "insert" /\ ~Present(k)
                   /\ Insert(k, v))
                    => HashTableLen(buckets') = HashTableLen(buckets) + 1
          /\ \A k \in Keys :
                (ret'[1] = "remove" /\ Present(k) /\ Remove(k))
                    => HashTableLen(buckets') = HashTableLen(buckets) - 1
       ]_vars

\* C3 witness: every key was inserted and one of them removed again
C3_Witness ==
    /\ status = "ok"
    /\ ret[1] = "remove"
    /\ ret[2] # None
    /\ HashTableLen(buckets) = NumKeys - 1

\* C4: remove(k) of a present key completes, returns the value stored under k,
\* and afterwards contains_key(k) is false and get(k) returns None.
C4_RemovePresent ==
    [][\A k \in Keys :
          (ret'[1] = "remove" /\ Present(k) /\ Remove(k)) =>
              /\ status' = "ok"
              /\ ret' = <<"remove", Lookup(k)>>
              /\ HashTableContainsKey(hash', buckets', k)
                    = [status |-> "ok", ret |-> FALSE]
              /\ HashTableGet(hash', buckets', k)
                    = [status |-> "ok", ret |-> None]
      ]_vars

\* C4 witness: a key with value "b" was removed and a slot with two or more
\* entries remains
C4_Witness ==
    /\ status = "ok"
    /\ ret = <<"remove", Some("b")>>
    /\ \E i \in 1 .. Len(buckets) : Len(buckets[i]) >= 2

\* C5: remove(k) of a key that is not present, in any table state (the fresh
\* table included), completes, returns None and leaves the entries and len()
\* unchanged.
C5_RemoveAbsent ==
    [][\A k \in Keys :
          (ret'[1] = "remove" /\ ~Present(k) /\ Remove(k)) =>
              /\ status' = "ok"
              /\ ret' = <<"remove", None>>
              /\ buckets' = buckets
              /\ HashTableLen(buckets') = HashTableLen(buckets)
      ]_vars

C7_NoIndexOnZeroSlots == status # "rem_by_zero"

\* C8: no resize meets an empty old slot (the expectation "existing bucket
\* can't be empty" never fails), so insert is total.
C8_NoEmptyOldSlot == status # "expect_empty"

\* C9: on a table with an occupied slot, insert resizes exactly when
\* occupied_slot_count / capacity > 7, and a capacity-2 table whose slots are
\* all occupied and that the caller keeps filling grows to capacity 4.
C9_GrowthBoundary ==
    /\ [][\A k \in Keys, v \in Vals :
              (ret'[1] = "insert" /\ BucketsLen(buckets) > 0 /\ Insert(k, v))
                  => ((capacity' # capacity)
                        <=> ((BucketsLen(buckets) \div capacity) > 7))
         ]_vars
    /\ (capacity = INITIAL_LEN /\ BucketsLen(buckets) = INITIAL_LEN)
          ~> (capacity = 2 * INITIAL_LEN)

\* C10: capacity starts at 0, the first insert makes it INITIAL_LEN, no other
\* operation changes it from 0, and from then on every step leaves it or
\* doubles it.
C10_CapacityDoubles ==
    /\ capacity = 0
    /\ [][IF capacity = 0
           THEN IF ret'[1] = "insert" /\ InsertAny
                THEN capacity' = INITIAL_LEN
                ELSE capacity' = 0
           ELSE capacity' \in {capacity, 2 * capacity}
         ]_vars

\* C10 witness: the capacity has doubled from INITIAL_LEN
C10_Witness == capacity = 2 * INITIAL_LEN

\* C14 (Invariant B): every stored entry (k, v) lies in the slot
\* hash(k) mod capacity, in every state the public operations reach, the
\* states an insert that resized leaves included.
C14_InvariantB ==
    \A i \in 1 .. Len(buckets) :
        \A p \in 1 .. Len(buckets[i]) :
            /\ capacity > 0
            /\ i - 1 = hash[buckets[i][p][1]] % capacity

\* two slots hold entries, one of them an entry whose hash exceeds the
\* capacity (the remainder matters)
C14_Witness ==
    /\ status = "ok"
    /\ \A i \in 1 .. Len(buckets) : buckets[i] # <<>>
    /\ \E i \in 1 .. Len(buckets) :
          \E p \in 1 .. Len(buckets[i]) : hash[buckets[i][p][1]] >= capacity

\* C15: no key occurs in more than one entry of the whole table.
C15_KeyOccursOnce ==
    \A k \in Keys : Cardinality(EntriesOf(buckets, k)) <= 1

\* a key inserted a second time, next to another key in its slot
C15_Witness ==
    /\ status = "ok"
    /\ Len(ret) = 2
    /\ ret[1] = "insert"
    /\ ret[2] # None
    /\ \E i \in 1 .. Len(buckets) : Len(buckets[i]) >= 2

\* C16: an insert(k, _) or remove(k) that returns leaves every other key k2
\* as it was: get(k2) returns after the call what it returned before it (on
\* a table without slots, where get cannot be asked, k2 is absent after the
\* call), also when k2 shares the slot of k.
C16_OtherKeysUntouched ==
    [][\A k \in Keys :
          (/\ status' = "ok"
           /\ ret'[1] \in {"insert", "remove"}
           /\ Remove(k) \/ \E v \in Vals : Insert(k, v))
              => \A k2 \in Keys \ {k} :
                    LookupNext(k2) = IF Len(buckets) = 0 THEN None ELSE Lookup(k2)
      ]_vars

\* a remove has returned a value, the removed key is the one key absent, and
\* the slot it was in still holds another key
C16_Witness ==
    /\ status = "ok"
    /\ Len(ret) = 2
    /\ ret[1] = "remove"
    /\ ret[2] # None
    /\ HashTableLen(buckets) = NumKeys - 1
    /\ \E k \in Keys :
          /\ ~Present(k)
          /\ buckets[get_index(hash, buckets, k) + 1] # <<>>

\* C17: get, contains_key and len leave the table as it is; remove changes
\* neither the capacity nor the number of slots nor the slot any other key
\* lies in; the capacity changes in insert steps only.
C17_OnlyInsertResizes ==
    [][/\ (GetAny \/ ContainsKeyAny \/ LenOp)
            => UNCHANGED <<hash, buckets, capacity>>
       /\ \A k \in Keys :
            (ret'[1] = "remove" /\ Remove(k))
                => /\ capacity' = capacity
                   /\ Len(buckets') = Len(buckets)
                   /\ \A k2 \in Keys \ {k} :
                         SlotsOf(buckets', k2) = SlotsOf(buckets, k2)
       /\ (capacity' # capacity \/ Len(buckets') # Len(buckets))
            => (ret'[1] = "insert" /\ InsertAny)
      ]_vars

\* a remove has emptied the last slot of a table that still holds an entry
C17_Witness ==
    /\ status = "ok"
    /\ Len(ret) = 2
    /\ ret[1] = "remove"
    /\ ret[2] # None
    /\ capacity = INITIAL_LEN
    /\ buckets[capacity] = <<>>
    /\ HashTableLen(buckets) > 0

\* C18: the number of slots equals the capacity; the number of occupied
\* slots is at most the capacity and at most len(); so the quotient
\* occupied / capacity of needs_resize is 0 or 1.
C18_OccupancyBounded ==
    /\ Len(buckets) = capacity
    /\ BucketsLen(buckets) <= capacity
    /\ BucketsLen(buckets) <= HashTableLen(buckets)
    /\ capacity > 0 => (BucketsLen(buckets) \div capacity) \in {0, 1}

\* every slot occupied (quotient 1) with more entries than slots
C18_Witness ==
    /\ status = "ok"
    /\ capacity > 0
    /\ BucketsLen(buckets) = capacity
    /\ HashTableLen(buckets) > capacity

\* C11: for every sorted slice src and element, a call of binary_search that
\* returns gives Some(i) with src[i] = element when the element occurs in
\* src, and None when it does not.
C11_FindsElement ==
    pc = "done" =>
        IF \E p \in 1 .. Len(src) : src[p] = element
        THEN /\ result # None
             /\ result[1] + 1 \in 1 .. Len(src)
             /\ src[result[1] + 1] = element
        ELSE result = None

\* C19: for every sorted slice and element the loop of binary_search
\* terminates (no iteration leaves low and high as they were), every mid it
\* reads lies inside the slice, and high = mid - 1 never goes below 0.
C19_LoopTerminatesInRange ==
    [][/\ pc' \notin {"panic_index", "panic_overflow"}
       /\ (pc = "loop" /\ pc' = "loop")
            => /\ locals' # locals
               /\ locals'.high < Len(src)
      ]_vars

\* C13: for every slice, the empty and the one-element slice included,
\* selection_sort completes without a panic and leaves the slice sorted in
\* ascending order, holding the elements it held at the call.
C13_SelectionSortSorts ==
    /\ ~Panicked
    /\ pc = "done" => (IsSorted(src) /\ IsPermutation(src, input))

\* C12: for every slice (any length, duplicates allowed) quick_sort
\* terminates and leaves the slice sorted in ascending order, holding the
\* elements it held at the call; no step indexes outside the slice.
\* Termination: every iteration of the partition loop that continues brings
\* i and j closer, and both recursive calls are on slices shorter than the
\* one partitioned.
C12_QuickSortSorts ==
    [][/\ ~Panicked'
       /\ pc' = "done" => (IsSorted(src') /\ IsPermutation(src', input))
       /\ (pc = "loop" /\ pc' = "loop")
            => /\ locals'.j - locals'.i < locals.j - locals.i
               /\ iters' <= locals.n
       /\ (pc = "split" /\ pc' = "dispatch")
            => /\ calls'[1][2] < locals.n
               /\ calls'[2][2] < locals.n
               /\ calls'[1][2] + calls'[2][2] + 1 = locals.n
      ]_vars

\* quick_sort has returned on a slice with a duplicate that was not sorted
\* and was long enough for a partition followed by another partition
C12_Witness ==
    /\ pc = "done"
    /\ Len(input) > 3
    /\ ~IsSorted(input)
    /\ \E e \in Elems : Count(input, e) > 1
    /\ IsSorted(src)

====
